---- MODULE Spec2Model ----
(***************************************************************************)
(* rustcached: the weighted LRU engine (src/src/lru.rs) and the memcached  *)
(* command interpreter on top of it (src/src/store.rs).                    *)
(*                                                                         *)
(* Byte strings (Vec<u8>) are kept run-length encoded: a sequence of runs  *)
(* <<byte, count>>, count >= 1, adjacent runs holding different bytes, so  *)
(* that a string of 1 MiB + 1 bytes is a one-element sequence.  Length,    *)
(* ordering and concatenation are computed on that encoding.               *)
(***************************************************************************)
EXTENDS Integers, Sequences, FiniteSets, TLC

VARIABLES
    map,          \* LruCache.map: key -> LruEntry
    lru,          \* LruCache.lru: set of <<used, key>>
    expires,      \* LruCache.expires: set of <<expires, key>>
    capacity,     \* LruCache.capacity
    weight,       \* LruCache.weight
    last_cas_id,  \* Store.last_cas_id
    pc,           \* "ready", or how the call in progress failed to return:
                  \* "hung" (it loops for ever) or "panicked"
    conn,         \* server: per client thread, where it is in its loop, the
                  \* command it parsed, the response, what its socket was sent
    mutex,        \* server: the Mutex<Store>: free, or held by a client
    log,          \* server: the commands in the order the lock was acquired
    call,         \* a call of wrap_ttl: its arguments and what it gave
    sock          \* server: per client, the bytes its socket holds unread and
                  \* the thread's parse_state, both as whole commands

vars == <<map, lru, expires, capacity, weight, last_cas_id, pc, conn, mutex, log, call, sock>>

\* what the engine and the interpreter leave alone
aux == <<conn, mutex, log, call, sock>>

-----------------------------------------------------------------------------
(* Bounds of the model *)

\* the byte budget the cache is created with (Store::new(100) in the tests)
Capacity == 100
\* engine-level clock values are 1..MaxTime
MaxTime == 2
\* Store::apply mints at most MaxCas CAS tokens
MaxCas == 3

-----------------------------------------------------------------------------
(* Option<T> *)

None == <<>>
Some(x) == <<x>>
IsSome(o) == o # <<>>
Unwrap(o) == o[1]

-----------------------------------------------------------------------------
(* Vec<u8>, run-length encoded *)

RECURSIVE BLen(_)
BLen(s) == IF s = <<>> THEN 0 ELSE s[1][2] + BLen(Tail(s))

\* Ord for Vec<u8>: byte-lexicographic, a proper prefix is smaller
RECURSIVE BLess(_, _)
BLess(a, b) ==
    IF b = <<>> THEN FALSE
    ELSE IF a = <<>> THEN TRUE
    ELSE IF a[1][1] # b[1][1] THEN a[1][1] < b[1][1]
    ELSE IF a[1][2] = b[1][2] THEN BLess(Tail(a), Tail(b))
    ELSE IF a[1][2] < b[1][2]
         THEN BLess(Tail(a), <<<<b[1][1], b[1][2] - a[1][2]>>>> \o Tail(b))
         ELSE BLess(<<<<a[1][1], a[1][2] - b[1][2]>>>> \o Tail(a), Tail(b))

\* Ord for (Timestamp, Arc<K>): the timestamp first, then the key
PairLess(p, q) == p[1] < q[1] \/ (p[1] = q[1] /\ BLess(p[2], q[2]))

\* BTreeSet::into_iter().next(): the smallest pair of a non-empty set
First(S) == CHOOSE p \in S : \A q \in S \ {p} : PairLess(p, q)

-----------------------------------------------------------------------------
(* Word sizes *)

SizeOfWeight == 8
SizeOfTimestamp == 4
SizeOfOptionTimestamp == 8
SizeOfCasUnique == 8
SizeOfFlags == 4

-----------------------------------------------------------------------------
(* The LRU engine.  A cache value is the record of the struct's fields. *)

Cache == [map |-> map, lru |-> lru, expires |-> expires,
          capacity |-> capacity, weight |-> weight]

EmptyMap == [k \in {} |-> 0]

new(cap) == [map |-> EmptyMap, lru |-> {}, expires |-> {},
             capacity |-> cap, weight |-> 0]

\* _expired counting the very second of expiration as expired
_expired_Inclusive(timestamp, now) == timestamp <= now

_expired(timestamp, now) == timestamp < now

expired(timestamp, now) == IsSome(timestamp) /\ _expired(Unwrap(timestamp), now)

\* HasWeight for DataContainer
ContainerWeight(value) == BLen(value.data) + SizeOfCasUnique + SizeOfFlags

compute_weight(key, value) ==
    3 * BLen(key) + ContainerWeight(value)
        + SizeOfWeight + SizeOfTimestamp + SizeOfOptionTimestamp

\* clear leaving the expiration set as it is
clear_KeepExpires(c) == [c EXCEPT !.map = EmptyMap, !.lru = {}, !.weight = 0]

clear(c) == [c EXCEPT !.map = EmptyMap, !.lru = {}, !.expires = {}, !.weight = 0]

\* delete forgetting to give the entry's weight back
delete_KeepWeight(c, key) ==
    IF key \notin DOMAIN c.map
    THEN [c |-> c, ret |-> FALSE]
    ELSE [c |-> [c EXCEPT !.map = [k \in DOMAIN c.map \ {key} |-> c.map[k]],
                          !.lru = c.lru \ {<<c.map[key].used, key>>}],
          ret |-> TRUE]

\* delete: the pair (expires, key) is removed from the recency set, so the
\* expiration set keeps it.  A negative weight stands for the usize underflow.
delete(c, key) ==
    IF key \notin DOMAIN c.map
    THEN [c |-> c, ret |-> FALSE]
    ELSE LET entry == c.map[key]
             lru1  == c.lru \ {<<entry.used, key>>}
             lru2  == IF IsSome(entry.expires)
                      THEN lru1 \ {<<Unwrap(entry.expires), key>>}
                      ELSE lru1
         IN [c |-> [c EXCEPT
                      !.map = [k \in DOMAIN c.map \ {key} |-> c.map[k]],
                      !.lru = lru2,
                      !.weight = c.weight - entry.weight],
             ret |-> TRUE]

\* self.delete(&*key_ref); return;  -- victim is the key handed to delete
Evict(c, key_ref) == [c |-> delete(c, key_ref).c, st |-> "ok", victim |-> <<key_ref>>]

\* deweight_once: st is "ok", or "panicked" at the unreachable!
deweight_once(c, now) ==
    IF DOMAIN c.map = {}
    THEN [c |-> c, st |-> "ok", victim |-> <<>>]
    ELSE IF c.expires # {} /\ _expired(First(c.expires)[1], now)
    THEN Evict(c, First(c.expires)[2])
    ELSE IF c.lru # {}
    THEN Evict(c, First(c.lru)[2])
    ELSE [c |-> c, st |-> "panicked", victim |-> <<>>]

\* the result of the eviction loop: the cache, whether the loop ended (st), and
\* per iteration the cache before it and the key passed to delete
Deweighted(c, st, steps) == [c |-> c, st |-> st, steps |-> steps]

AfterStep(step, rest) == Deweighted(rest.c, rest.st, <<step>> \o rest.steps)

\* deweight with `if` in place of `while`: at most one victim
OneStep(c, once) == Deweighted(once.c, once.st, <<[before |-> c, victim |-> once.victim]>>)

deweight_IfNotWhile(c, target_weight, now) ==
    IF c.weight > target_weight /\ DOMAIN c.map # {}
    THEN OneStep(c, deweight_once(c, now))
    ELSE Deweighted(c, "ok", <<>>)

\* deweight: the while loop.  deweight_once is a function of (cache, now), so
\* an iteration that leaves the cache as it was is repeated for ever: "hung".
RECURSIVE deweight(_, _, _)
RECURSIVE Iterate(_, _, _, _)
Iterate(c, once, target_weight, now) ==
    IF once.st = "panicked"
    THEN Deweighted(c, "panicked", <<[before |-> c, victim |-> once.victim]>>)
    ELSE IF once.c = c
    THEN Deweighted(c, "hung", <<[before |-> c, victim |-> once.victim]>>)
    ELSE AfterStep([before |-> c, victim |-> once.victim],
                   deweight(once.c, target_weight, now))

\* deweight making room it was not asked for: it evicts down to nothing
deweight_UntilEmpty(c, target_weight, now) ==
    IF c.weight > 0 /\ DOMAIN c.map # {}
    THEN Iterate(c, deweight_once(c, now), 0, now)
    ELSE Deweighted(c, IF c.capacity >= target_weight THEN "ok" ELSE "panicked", <<>>)

deweight(c, target_weight, now) ==
    IF c.weight > target_weight /\ DOMAIN c.map # {}
    THEN Iterate(c, deweight_once(c, now), target_weight, now)
    ELSE Deweighted(c, IF c.capacity >= target_weight THEN "ok" ELSE "panicked", <<>>)

\* the result of set: ret is the bool returned; st # "ok" when the call does
\* not return
SetResult(c, ret, st, steps) == [c |-> c, ret |-> ret, st |-> st, steps |-> steps]

\* the insertion setting the total weight to the new entry's weight
Insert_WeightOfLast(dw, key, value, exp, now, w) ==
    IF dw.st # "ok"
    THEN SetResult(dw.c, FALSE, dw.st, dw.steps)
    ELSE SetResult(
           [dw.c EXCEPT
              !.map = [k \in DOMAIN dw.c.map \cup {key} |->
                         IF k = key
                         THEN [data |-> value, used |-> now, expires |-> exp, weight |-> w]
                         ELSE dw.c.map[k]],
              !.weight = w,
              !.lru = dw.c.lru \cup {<<now, key>>},
              !.expires = IF IsSome(exp)
                          THEN dw.c.expires \cup {<<Unwrap(exp), key>>}
                          ELSE dw.c.expires],
           TRUE, "ok", dw.steps)

\* set, from the insertion on: dw is what deweight left
Insert(dw, key, value, exp, now, w) ==
    IF dw.st # "ok"
    THEN SetResult(dw.c, FALSE, dw.st, dw.steps)
    ELSE SetResult(
           [dw.c EXCEPT
              !.map = [k \in DOMAIN dw.c.map \cup {key} |->
                         IF k = key
                         THEN [data |-> value, used |-> now, expires |-> exp, weight |-> w]
                         ELSE dw.c.map[k]],
              !.weight = dw.c.weight + w,
              !.lru = dw.c.lru \cup {<<now, key>>},
              !.expires = IF IsSome(exp)
                          THEN dw.c.expires \cup {<<Unwrap(exp), key>>}
                          ELSE dw.c.expires],
           TRUE, "ok", dw.steps)

\* set emptying the cache for an item it can never fit
SetAfterDelete_ClearFirst(c1, key, value, exp, now, w) ==
    IF w > c1.capacity
    THEN SetResult(clear(c1), FALSE, "ok", <<>>)
    ELSE Insert(deweight(c1, c1.capacity - w, now), key, value, exp, now, w)

\* set, after self.delete(&key): c1 is the cache without the key's old entry
SetAfterDelete(c1, key, value, exp, now, w) ==
    IF w > c1.capacity
    THEN SetResult(c1, FALSE, "ok", <<>>)
    ELSE Insert(deweight(c1, c1.capacity - w, now), key, value, exp, now, w)

\* set getting rid of the key's old entry before looking at expires
set_DeleteFirst(c, key, value, exp, now) ==
    IF expired(exp, now)
    THEN SetResult(delete(c, key).c, FALSE, "ok", <<>>)
    ELSE SetAfterDelete(delete(c, key).c, key, value, exp, now,
                        compute_weight(key, value))

set(c, key, value, exp, now) ==
    IF expired(exp, now)
    THEN SetResult(c, FALSE, "ok", <<>>)
    ELSE SetAfterDelete(delete(c, key).c, key, value, exp, now,
                        compute_weight(key, value))

\* _get_full_entry removing an expired entry as soon as it is found
_get_full_entry_Preemptive(c, key, now) ==
    IF key \notin DOMAIN c.map THEN [c |-> c, ret |-> None]
    ELSE IF expired(c.map[key].expires, now) THEN [c |-> delete(c, key).c, ret |-> None]
    ELSE LET entry == c.map[key]
         IN IF entry.used # now
            THEN LET c1 == [c EXCEPT
                              !.lru = (c.lru \ {<<entry.used, key>>}) \cup {<<now, key>>},
                              !.map[key].used = now]
                 IN [c |-> c1, ret |-> Some(c1.map[key])]
            ELSE [c |-> c, ret |-> Some(entry)]

\* _get_full_entry adding the pair (now, key) without taking the old one out
_get_full_entry_KeepOldPair(c, key, now) ==
    IF key \notin DOMAIN c.map THEN [c |-> c, ret |-> None]
    ELSE IF expired(c.map[key].expires, now) THEN [c |-> c, ret |-> None]
    ELSE LET c1 == [c EXCEPT !.lru = c.lru \cup {<<now, key>>}, !.map[key].used = now]
         IN [c |-> c1, ret |-> Some(c1.map[key])]

\* _get_full_entry: ret is None or Some(entry)
_get_full_entry(c, key, now) ==
    IF key \notin DOMAIN c.map THEN [c |-> c, ret |-> None]
    ELSE IF expired(c.map[key].expires, now) THEN [c |-> c, ret |-> None]
    ELSE LET entry == c.map[key]
         IN IF entry.used # now
            THEN LET c1 == [c EXCEPT
                              !.lru = (c.lru \ {<<entry.used, key>>}) \cup {<<now, key>>},
                              !.map[key].used = now]
                 IN [c |-> c1, ret |-> Some(c1.map[key])]
            ELSE [c |-> c, ret |-> Some(entry)]

get_full_entry(c, key, now) == _get_full_entry(c, key, now)

\* get reclaiming the entry it finds expired
get_Reclaiming(c, key, now) ==
    LET r == get_full_entry(c, key, now)
    IN IF IsSome(r.ret)
       THEN [c |-> r.c, ret |-> Some(Unwrap(r.ret).data)]
       ELSE [c |-> delete(c, key).c, ret |-> None]

\* get: ret is None or Some(value)
get(c, key, now) ==
    LET r == get_full_entry(c, key, now)
    IN [c |-> r.c, ret |-> IF IsSome(r.ret) THEN Some(Unwrap(r.ret).data) ELSE None]

fast_get(c, key, now) ==
    IF key \in DOMAIN c.map
    THEN IF expired(c.map[key].expires, now) THEN None ELSE Some(c.map[key].data)
    ELSE None

contains(c, key, now) == IsSome(fast_get(c, key, now))

_touch(c, key, old_expires, new_expires, old_used, now) ==
    LET e1 == IF old_expires # new_expires /\ IsSome(old_expires)
              THEN c.expires \ {<<Unwrap(old_expires), key>>}
              ELSE c.expires
        e2 == IF old_expires # new_expires /\ IsSome(new_expires)
              THEN e1 \cup {<<Unwrap(new_expires), key>>}
              ELSE e1
        l1 == IF old_used # now
              THEN (c.lru \ {<<old_used, key>>}) \cup {<<now, key>>}
              ELSE c.lru
    IN [c EXCEPT !.expires = e2, !.lru = l1]

\* touch: old_used is read after _get_full_entry has already set used to now
touch(c, key, exp, now) ==
    LET r == _get_full_entry(c, key, now)
    IN IF ~IsSome(r.ret)
       THEN [c |-> c, ret |-> FALSE]
       ELSE LET old_expires == Unwrap(r.ret).expires
                old_used    == Unwrap(r.ret).used
                c1 == [r.c EXCEPT !.map[key].expires = exp, !.map[key].used = now]
            IN [c |-> _touch(c1, key, old_expires, exp, old_used, now), ret |-> TRUE]

-----------------------------------------------------------------------------
(* The command interpreter (Store) *)

MAGIC_DATE == 60 * 60 * 24 * 30
MAX_KEY == 255
MAX_DATA == 1024 * 1024

\* Vec::extend_from_slice on the encoding: the runs that meet are merged
BConcat(a, b) ==
    IF a = <<>> THEN b
    ELSE IF b = <<>> THEN a
    ELSE IF a[Len(a)][1] = b[1][1]
    THEN SubSeq(a, 1, Len(a) - 1) \o <<<<b[1][1], a[Len(a)][2] + b[1][2]>>>> \o Tail(b)
    ELSE a \o b

wrap_ttl(ttl, now) ==
    IF ttl = 0 THEN None
    ELSE IF ttl < MAGIC_DATE THEN Some(now + ttl)
    ELSE Some(ttl)

Container(data, flags, unique) == [data |-> data, flags |-> flags, unique |-> unique]

Resp(kind) == [kind |-> kind]

\* the result of apply: the Store's two fields, the Response, whether the call
\* returned (st), and what LruCache::set returned when the command called it
Applied(store, cas, resp, st, set_ret) ==
    [store |-> store, last_cas_id |-> cas, response |-> resp, st |-> st,
     set_ret |-> set_ret]

\* self.store.set(...); Response::StoredResponse -- the bool r.ret is dropped
Answer(r, cas, resp) ==
    Applied(r.c, cas, IF r.st = "ok" THEN resp ELSE Resp("none"), r.st, Some(r.ret))

StoreSet(store, cas, key, value, exp, now, resp) ==
    Answer(set(store, key, value, exp, now), cas, resp)

\* the Append and Prepend arms: new_vec from the entry read through
\* get_full_entry (which moves it in the recency set), then set
SpliceEntry(g, cas, key, cdata, now, prepend) ==
    StoreSet(g.c, cas, key,
             Container(IF prepend THEN BConcat(cdata, Unwrap(g.ret).data.data)
                       ELSE BConcat(Unwrap(g.ret).data.data, cdata),
                       Unwrap(g.ret).data.flags, cas),
             Unwrap(g.ret).expires, now, Resp("Stored"))

Splice(store, cas, key, cdata, now, prepend) ==
    SpliceEntry(get_full_entry(store, key, now), cas, key, cdata, now, prepend)

\* make_cas_id handing out the counter without advancing it
make_cas_id_Reuse(s) == s.last_cas_id

\* make_cas_id: the counter after self.last_cas_id += 1, which is the token
make_cas_id(s) == s.last_cas_id + 1

\* the guard of the first Setter arm
SizeGate_KeyOnly(command) == BLen(command.key) > MAX_KEY

SizeGate(command) == BLen(command.key) > MAX_KEY \/ BLen(command.data) > MAX_DATA

ApplySetter(s, command, now) ==
    IF SizeGate(command)
    THEN Applied(s.store, s.last_cas_id, Resp("TooBig"), "ok", None)
    ELSE LET new_cas == make_cas_id(s)
             ttl     == wrap_ttl(command.ttl, now)
             skey    == command.key
             cont    == Container(command.data, command.flags, new_cas)
             present == contains(s.store, skey, now)
             Refuse(kind) == Applied(s.store, new_cas, Resp(kind), "ok", None)
             Store_  == StoreSet(s.store, new_cas, skey, cont, ttl, now, Resp("Stored"))
         IN CASE command.setter = "Set" -> Store_
              [] command.setter = "Add" ->
                    IF present THEN Refuse("NotStored") ELSE Store_
              [] command.setter = "Replace" ->
                    IF present THEN Store_ ELSE Refuse("NotStored")
              [] command.setter = "Append" ->
                    IF present
                    THEN Splice(s.store, new_cas, skey, command.data, now, FALSE)
                    ELSE Refuse("NotStored")
              [] command.setter = "Prepend" ->
                    IF present
                    THEN Splice(s.store, new_cas, skey, command.data, now, TRUE)
                    ELSE Refuse("NotStored")
              [] command.setter = "Cas" ->
                    IF ~present THEN Refuse("NotFound")
                    ELSE IF Unwrap(fast_get(s.store, skey, now)).unique = command.unique
                    THEN Store_
                    ELSE Refuse("Exists")

\* the Getter loop pushing each hit in front of the ones found before
RECURSIVE GetEach(_, _, _)
GetEach_PushFront(store, keys, now) ==
    IF keys = <<>> THEN [c |-> store, found |-> <<>>]
    ELSE LET g    == get(store, keys[1], now)
             rest == GetEach(g.c, Tail(keys), now)
             item == Unwrap(g.ret)
         IN [c |-> rest.c,
             found |-> IF IsSome(g.ret)
                       THEN rest.found
                            \o <<[key |-> keys[1], data |-> item.data,
                                  flags |-> item.flags, unique |-> item.unique]>>
                       ELSE rest.found]

\* the Getter loop: get (touching) key by key, collecting the hits in order
GetEach(store, keys, now) ==
    IF keys = <<>> THEN [c |-> store, found |-> <<>>]
    ELSE LET g    == get(store, keys[1], now)
             rest == GetEach(g.c, Tail(keys), now)
             item == Unwrap(g.ret)
         IN [c |-> rest.c,
             found |-> IF IsSome(g.ret)
                       THEN <<[key |-> keys[1], data |-> item.data,
                               flags |-> item.flags, unique |-> item.unique]>>
                            \o rest.found
                       ELSE rest.found]

ApplyGetter(s, command, now) ==
    LET r == GetEach(s.store, command.keys, now)
    IN Applied(r.c, s.last_cas_id,
               [kind |-> IF command.getter = "Get" THEN "Data" ELSE "Gets",
                responses |-> r.found],
               "ok", None)

\* the Delete arm answering by what a reader at now would find
ApplyDelete_IfLive(s, command, now) ==
    IF contains(s.store, command.key, now)
    THEN Applied(delete(s.store, command.key).c, s.last_cas_id, Resp("Deleted"), "ok", None)
    ELSE Applied(s.store, s.last_cas_id, Resp("NotFound"), "ok", None)

ApplyDelete(s, command, now) ==
    LET r == delete(s.store, command.key)
    IN Applied(r.c, s.last_cas_id,
               IF r.ret THEN Resp("Deleted") ELSE Resp("NotFound"), "ok", None)

\* the Touch arm handing the command's ttl to the engine as it came
ApplyTouch_RawTtl(s, command, now) ==
    LET ttl == IF command.ttl = 0 THEN None ELSE Some(command.ttl)
    IN IF contains(s.store, command.key, now)
       THEN Applied(touch(s.store, command.key, ttl, now).c, s.last_cas_id,
                    Resp("Touched"), "ok", None)
       ELSE Applied(s.store, s.last_cas_id, Resp("NotFound"), "ok", None)

ApplyTouch(s, command, now) ==
    LET ttl == wrap_ttl(command.ttl, now)
    IN IF contains(s.store, command.key, now)
       THEN Applied(touch(s.store, command.key, ttl, now).c, s.last_cas_id,
                    Resp("Touched"), "ok", None)
       ELSE Applied(s.store, s.last_cas_id, Resp("NotFound"), "ok", None)

-----------------------------------------------------------------------------
(* IncrValue (u64).  A value is the sequence of its decimal digits, most     *)
(* significant first, without leading zeros (zero is <<0>>), so that the     *)
(* full 64-bit range is kept.                                                *)

U64_MAX == <<1, 8, 4, 4, 6, 7, 4, 4, 0, 7, 3, 7, 0, 9, 5, 5, 1, 6, 1, 5>>
TWO_64 == <<1, 8, 4, 4, 6, 7, 4, 4, 0, 7, 3, 7, 0, 9, 5, 5, 1, 6, 1, 6>>

Rev(d) == [i \in 1..Len(d) |-> d[Len(d) + 1 - i]]

Rest(d) == IF d = <<>> THEN <<>> ELSE Tail(d)

RECURSIVE StripZeros(_)
StripZeros(d) == IF Len(d) > 1 /\ d[1] = 0 THEN StripZeros(Tail(d)) ELSE d

NLess(a, b) ==
    \/ Len(a) < Len(b)
    \/ /\ Len(a) = Len(b)
       /\ \E i \in 1..Len(a) : a[i] < b[i] /\ \A j \in 1..(i - 1) : a[j] = b[j]

\* least significant digit first
RECURSIVE AddLE(_, _, _)
AddLE(a, b, carry) ==
    IF a = <<>> /\ b = <<>>
    THEN IF carry = 0 THEN <<>> ELSE <<carry>>
    ELSE LET sum == (IF a = <<>> THEN 0 ELSE a[1]) + (IF b = <<>> THEN 0 ELSE b[1]) + carry
         IN <<sum % 10>> \o AddLE(Rest(a), Rest(b), sum \div 10)

RECURSIVE SubLE(_, _, _)
SubLE(a, b, borrow) ==
    IF a = <<>> THEN <<>>
    ELSE LET diff == a[1] - (IF b = <<>> THEN 0 ELSE b[1]) - borrow
         IN <<IF diff < 0 THEN diff + 10 ELSE diff>>
            \o SubLE(Tail(a), Rest(b), IF diff < 0 THEN 1 ELSE 0)

NAdd(a, b) == StripZeros(Rev(AddLE(Rev(a), Rev(b), 0)))

\* a - b for a >= b
NSub(a, b) == StripZeros(Rev(SubLE(Rev(a), Rev(b), 0)))

Wrap(sum) == IF NLess(U64_MAX, sum) THEN NSub(sum, TWO_64) ELSE sum

wrapping_add(a, b) == Wrap(NAdd(a, b))

saturating_sub(a, b) == IF NLess(a, b) THEN <<0>> ELSE NSub(a, b)

\* Ttl (u32) over its whole range, values being digit sequences as above
U32_MAX == <<4, 2, 9, 4, 9, 6, 7, 2, 9, 5>>
TWO_32 == <<4, 2, 9, 4, 9, 6, 7, 2, 9, 6>>
MAGIC_DATE_Digits == <<2, 5, 9, 2, 0, 0, 0>>

\* now + ttl in u32: a build with overflow checks panics on overflow, a build
\* without them wraps
AddU32(sum, build) ==
    IF ~NLess(U32_MAX, sum) THEN [st |-> "ok", ret |-> Some(sum)]
    ELSE IF build = "checked" THEN [st |-> "panicked", ret |-> None]
    ELSE [st |-> "ok", ret |-> Some(NSub(sum, TWO_32))]

\* wrap_ttl on the whole u32 range
wrap_ttl_u32(ttl, now, build) ==
    IF ttl = <<0>> THEN [st |-> "ok", ret |-> None]
    ELSE IF NLess(ttl, MAGIC_DATE_Digits) THEN AddU32(NAdd(now, ttl), build)
    ELSE [st |-> "ok", ret |-> Some(ttl)]

\* u64::to_string().as_bytes().to_vec()
RECURSIVE to_string(_)
to_string(n) ==
    IF n = <<>> THEN <<>> ELSE BConcat(<<<<48 + n[1], 1>>>>, to_string(Tail(n)))

IsDigit(b) == 48 <= b /\ b <= 57

\* the digits of a non-empty run of ASCII digits
RECURSIVE DigitsOf(_)
DigitsOf(d) ==
    IF d = <<>> THEN <<>>
    ELSE [i \in 1..d[1][2] |-> d[1][1] - 48] \o DigitsOf(Tail(d))

\* the string without its first byte
DropByte(d) == IF d[1][2] = 1 THEN Tail(d) ELSE <<<<d[1][1], d[1][2] - 1>>>> \o Tail(d)

\* the digits after the sign: zeros in front do not count towards the value
ParseDigits(d) ==
    IF d = <<>> \/ \E i \in 1..Len(d) : ~IsDigit(d[i][1]) THEN None
    ELSE LET sig == IF d[1][1] = 48 THEN Tail(d) ELSE d
         IN IF sig = <<>> THEN Some(<<0>>)
            ELSE IF BLen(sig) > Len(U64_MAX) THEN None
            ELSE IF NLess(U64_MAX, DigitsOf(sig)) THEN None
            ELSE Some(DigitsOf(sig))

\* str::parse::<u64>: an optional '+', then one digit at least, the value at
\* most u64::MAX
parse(d) ==
    IF d = <<>> THEN None
    ELSE IF d[1][1] = 43 THEN ParseDigits(DropByte(d))
    ELSE ParseDigits(d)

\* str::from_utf8 refuses nothing that parse would accept
forgetful_parse_int(current_data) == parse(current_data)

BadInt == [kind |-> "ClientError",
           message |-> "cannot increment or decrement non-numeric value"]

\* the NewValue arm: the entry's expires and flags, the new token
IncrStore(g, cas, key, new_int, now) ==
    StoreSet(g.c, cas, key,
             Container(to_string(new_int), Unwrap(g.ret).data.flags, cas),
             Unwrap(g.ret).expires, now, [kind |-> "Incr", value |-> new_int])

IncrParsed(g, as_int, cas, command, now) ==
    IF ~IsSome(as_int)
    THEN Applied(g.c, cas, BadInt, "ok", None)
    ELSE IncrStore(g, cas, command.key,
                   IF command.incrementer = "Decr"
                   THEN saturating_sub(Unwrap(as_int), command.value)
                   ELSE wrapping_add(Unwrap(as_int), command.value),
                   now)

IncrEntry(g, cas, command, now) ==
    IF ~IsSome(g.ret)
    THEN Applied(g.c, cas, Resp("NotFound"), "ok", None)
    ELSE IncrParsed(g, forgetful_parse_int(Unwrap(g.ret).data.data), cas, command, now)

ApplyIncrementer(s, command, now) ==
    IncrEntry(get_full_entry(s.store, command.key, now), make_cas_id(s), command, now)

\* Store::apply.  The Quit arm is the unreachable!.
apply(s, command, now) ==
    CASE command.type = "Setter" -> ApplySetter(s, command, now)
      [] command.type = "Getter" -> ApplyGetter(s, command, now)
      [] command.type = "Delete" -> ApplyDelete(s, command, now)
      [] command.type = "Touch" -> ApplyTouch(s, command, now)
      [] command.type = "Incrementer" -> ApplyIncrementer(s, command, now)
      [] command.type = "FlushAll" ->
            Applied(clear(s.store), s.last_cas_id, Resp("Ok"), "ok", None)
      [] command.type = "Bad" ->
            Applied(s.store, s.last_cas_id, Resp("Error"), "ok", None)
      [] command.type = "Version" ->
            Applied(s.store, s.last_cas_id, Resp("Version"), "ok", None)
      [] command.type = "Verbosity" ->
            Applied(s.store, s.last_cas_id, Resp("Ok"), "ok", None)
      [] command.type = "Quit" ->
            Applied(s.store, s.last_cas_id, Resp("none"), "panicked", None)

-----------------------------------------------------------------------------
(* Inputs *)

KeyA == <<<<97, 1>>>>
KeyB == <<<<98, 1>>>>
KeyC == <<<<99, 1>>>>
Keys == {KeyA, KeyB, KeyC}

\* data of one byte ("1"), of 40 bytes (two such entries do not fit together)
\* and of 80 bytes (the entry is heavier than Capacity)
SmallData == <<<<49, 1>>>>
LargeData == <<<<120, 40>>>>
HugeData == <<<<120, 80>>>>

Values == {Container(d, 0, 0) : d \in {SmallData, LargeData, HugeData}}

Times == 1..MaxTime
OptTimes == {None} \cup {Some(t) : t \in Times}


\* Store-level inputs.  A payload is the data and flags of a setter command.
Keys2 == {KeyA, KeyB}
LongestKey == <<<<97, MAX_KEY>>>>
TooLongKey == <<<<97, MAX_KEY + 1>>>>
LongestData == <<<<120, MAX_DATA>>>>
TooLongData == <<<<120, MAX_DATA + 1>>>>

Payloads == {[data |-> SmallData, flags |-> 0],
             [data |-> LargeData, flags |-> 5],
             [data |-> HugeData, flags |-> 0]}

\* the clock readings of epoch_time(), and ttls: none, relative, absolute and
\* already past, absolute and equal to the first clock reading
Epoch0 == MAGIC_DATE + 1
Clocks == {Epoch0, Epoch0 + 1}
Ttls == {0, 1, MAGIC_DATE, Epoch0}

SetterTypes == {"Set", "Add", "Replace", "Append", "Prepend", "Cas"}

Setter(setter, unique, key, data, ttl, flags) ==
    [type |-> "Setter", setter |-> setter, unique |-> unique, key |-> key,
     data |-> data, ttl |-> ttl, flags |-> flags]

Setters ==
    {Setter(st, 0, k, p.data, t, p.flags) :
        st \in SetterTypes \ {"Cas"}, k \in Keys2, p \in Payloads, t \in Ttls}
    \cup {Setter("Cas", u, k, p.data, t, p.flags) :
        u \in 1..MaxCas, k \in Keys2, p \in Payloads, t \in Ttls}

\* setters at and beyond the size limits
EdgeSetters ==
    {Setter(st, 1, kd[1], kd[2], 0, 0) :
        st \in SetterTypes,
        kd \in {<<LongestKey, SmallData>>, <<TooLongKey, SmallData>>,
                 <<KeyA, LongestData>>, <<KeyA, TooLongData>>}}

\* numeric data: u64::MAX, and "+1"; "99" under a key that makes the entry
\* weigh 100 bytes
MaxData == to_string(U64_MAX)
PlusData == <<<<43, 1>>, <<49, 1>>>>
NinesData == <<<<57, 2>>>>
TightKey == <<<<107, 22>>>>

NumSetters ==
    {Setter("Set", 0, KeyA, d, 1, 7) : d \in {MaxData, PlusData}}
    \cup {Setter("Set", 0, TightKey, NinesData, 0, 7)}

Deltas == {<<1>>, <<2>>, U64_MAX}

Incrs == {[type |-> "Incrementer", incrementer |-> i, key |-> k, value |-> v] :
            i \in {"Incr", "Decr"}, k \in {KeyA, TightKey}, v \in Deltas}

KeyLists == {<<k>> : k \in Keys2} \cup {<<k1, k2>> : k1 \in Keys2, k2 \in Keys2}

Getters == {[type |-> "Getter", getter |-> g, keys |-> ks] :
              g \in {"Get", "Gets"}, ks \in KeyLists}

Deletes == {[type |-> "Delete", key |-> k] : k \in Keys2}

Touches == {[type |-> "Touch", key |-> k, ttl |-> t] : k \in Keys2, t \in Ttls}

Others == {[type |-> t] : t \in {"FlushAll", "Bad", "Version", "Verbosity"}}

-----------------------------------------------------------------------------
(* State *)

\* the client threads, and a thread waiting for its next command
Clients == {1, 2}

\* a connection: where its thread is in the loop of client(), the
\* CommandConfig it parsed last, the position of that command in the order of
\* lock acquisitions, the Response computed for it and what was written to
\* the socket for it
Idle == [pc |-> "reading", request |-> None, ticket |-> 0, response |-> None,
         written |-> <<>>]

\* a socket nothing was sent on, and let mut parse_state = Vec::with_capacity(..)
\* sent and done count the commands the client wrote and the server finished
Quiet == [unread |-> <<>>, parse_state |-> <<>>, sent |-> 0, done |-> 0]

Install(c) ==
    /\ map' = c.map
    /\ lru' = c.lru
    /\ expires' = c.expires
    /\ capacity' = c.capacity
    /\ weight' = c.weight

Init ==
    /\ map = new(Capacity).map
    /\ lru = new(Capacity).lru
    /\ expires = new(Capacity).expires
    /\ capacity = new(Capacity).capacity
    /\ weight = new(Capacity).weight
    /\ last_cas_id = 0
    /\ pc = "ready"
    /\ conn = [c \in Clients |-> Idle]
    /\ mutex = None
    /\ log = <<>>
    /\ call = None
    /\ sock = [c \in Clients |-> Quiet]

-----------------------------------------------------------------------------
(* The engine driven directly through its public operations *)

CallSet(key, value, exp, now) ==
    LET r == set(Cache, key, value, exp, now)
    IN /\ pc = "ready"
       /\ Install(r.c)
       /\ pc' = IF r.st = "ok" THEN "ready" ELSE r.st
       /\ UNCHANGED <<last_cas_id, aux>>

CallGet(key, now) ==
    LET r == get(Cache, key, now)
    IN /\ pc = "ready"
       /\ Install(r.c)
       /\ UNCHANGED <<last_cas_id, pc, aux>>

CallTouch(key, exp, now) ==
    LET r == touch(Cache, key, exp, now)
    IN /\ pc = "ready"
       /\ Install(r.c)
       /\ UNCHANGED <<last_cas_id, pc, aux>>

CallDelete(key) ==
    LET r == delete(Cache, key)
    IN /\ pc = "ready"
       /\ Install(r.c)
       /\ UNCHANGED <<last_cas_id, pc, aux>>

CallClear ==
    /\ pc = "ready"
    /\ Install(clear(Cache))
    /\ UNCHANGED <<last_cas_id, pc, aux>>

LruNext ==
    \/ \E key \in Keys, value \in Values, exp \in OptTimes, now \in Times :
          CallSet(key, value, exp, now)
    \/ \E key \in Keys, now \in Times : CallGet(key, now)
    \/ \E key \in Keys, exp \in OptTimes, now \in Times : CallTouch(key, exp, now)
    \/ \E key \in Keys : CallDelete(key)
    \/ CallClear

LruSpec == Init /\ [][LruNext]_vars

-----------------------------------------------------------------------------
(* The interpreter driven through Store::apply, the clock read per command *)

Store == [store |-> Cache, last_cas_id |-> last_cas_id]

Mints(cmd) ==
    cmd.type = "Setter" /\ BLen(cmd.key) <= MAX_KEY /\ BLen(cmd.data) <= MAX_DATA

\* the Store after the call: r is what apply computed
Commit(r) ==
    /\ Install(r.store)
    /\ last_cas_id' = r.last_cas_id
    /\ pc' = IF r.st = "ok" THEN "ready" ELSE r.st

\* a setter passing the size gate mints a CAS token
ApplySetterCmd(cmd, now) ==
    /\ pc = "ready"
    /\ last_cas_id < MaxCas
    /\ Commit(apply(Store, cmd, now))
    /\ UNCHANGED aux

\* setters at and beyond the size limits
ApplyEdgeSetterCmd(cmd, now) ==
    /\ pc = "ready"
    /\ Mints(cmd) => last_cas_id < MaxCas
    /\ Commit(apply(Store, cmd, now))
    /\ UNCHANGED aux

\* setters of numeric data
ApplyNumSetterCmd(cmd, now) ==
    /\ pc = "ready"
    /\ last_cas_id < MaxCas
    /\ Commit(apply(Store, cmd, now))
    /\ UNCHANGED aux

\* incr and decr mint a CAS token whatever the outcome
ApplyIncrCmd(cmd, now) ==
    /\ pc = "ready"
    /\ last_cas_id < MaxCas
    /\ Commit(apply(Store, cmd, now))
    /\ UNCHANGED aux

ApplyGetterCmd(cmd, now) ==
    /\ pc = "ready"
    /\ Commit(apply(Store, cmd, now))
    /\ UNCHANGED aux

ApplyDeleteCmd(cmd, now) ==
    /\ pc = "ready"
    /\ Commit(apply(Store, cmd, now))
    /\ UNCHANGED aux

ApplyTouchCmd(cmd, now) ==
    /\ pc = "ready"
    /\ Commit(apply(Store, cmd, now))
    /\ UNCHANGED aux

\* FlushAll, Bad, Version, Verbosity
ApplyOtherCmd(cmd, now) ==
    /\ pc = "ready"
    /\ Commit(apply(Store, cmd, now))
    /\ UNCHANGED aux

Next ==
    \/ \E cmd \in Setters, now \in Clocks : ApplySetterCmd(cmd, now)
    \/ \E cmd \in EdgeSetters, now \in Clocks : ApplyEdgeSetterCmd(cmd, now)
    \/ \E cmd \in NumSetters, now \in Clocks : ApplyNumSetterCmd(cmd, now)
    \/ \E cmd \in Incrs, now \in Clocks : ApplyIncrCmd(cmd, now)
    \/ \E cmd \in Getters, now \in Clocks : ApplyGetterCmd(cmd, now)
    \/ \E cmd \in Deletes, now \in Clocks : ApplyDeleteCmd(cmd, now)
    \/ \E cmd \in Touches, now \in Clocks : ApplyTouchCmd(cmd, now)
    \/ \E cmd \in Others, now \in Clocks : ApplyOtherCmd(cmd, now)

Spec == Init /\ [][Next]_vars

-----------------------------------------------------------------------------
(* The interpreter on a cache of the default size *)

\* let mut capacity = 64*1024*1024;
DefaultCapacity == 64 * 1024 * 1024

\* server::start(port, capacity, verbose) with no -m option given
DefaultInit ==
    /\ map = new(DefaultCapacity).map
    /\ lru = new(DefaultCapacity).lru
    /\ expires = new(DefaultCapacity).expires
    /\ capacity = new(DefaultCapacity).capacity
    /\ weight = new(DefaultCapacity).weight
    /\ last_cas_id = 0
    /\ pc = "ready"
    /\ conn = [c \in Clients |-> Idle]
    /\ mutex = None
    /\ log = <<>>
    /\ call = None
    /\ sock = [c \in Clients |-> Quiet]

\* setters at and beyond the size limits, reads, deletes, touches and flushes
DefaultNext ==
    \/ \E cmd \in EdgeSetters, now \in Clocks : ApplyEdgeSetterCmd(cmd, now)
    \/ \E cmd \in Getters, now \in Clocks : ApplyGetterCmd(cmd, now)
    \/ \E cmd \in Deletes, now \in Clocks : ApplyDeleteCmd(cmd, now)
    \/ \E cmd \in Touches, now \in Clocks : ApplyTouchCmd(cmd, now)
    \/ \E cmd \in Others, now \in Clocks : ApplyOtherCmd(cmd, now)

DefaultSpec == DefaultInit /\ [][DefaultNext]_vars

-----------------------------------------------------------------------------
(* The server: one thread per client around a Mutex<Store> (src/src/server.rs) *)

\* what socket.write is handed, call by call; a literal ending in "\r\n" is
\* split in front of it
Lit(text) == [t |-> "lit", v |-> text]
Bytes(b) == [t |-> "bytes", v |-> b]
Num(n) == [t |-> "num", v |-> n]
CRLF == Lit("\r\n")

NAME == "rustcache"
VERSION == "0.1.0"

RECURSIVE FormatValues(_, _)
FormatValues(responses, with_unique) ==
    IF responses = <<>> THEN <<Lit("END"), CRLF>>
    ELSE LET response == responses[1]
         IN <<Lit("VALUE "), Bytes(response.key), Lit(" "), Num(response.flags),
              Lit(" "), Num(BLen(response.data))>>
            \o (IF with_unique THEN <<Lit(" "), Num(response.unique), Lit(" ")>> ELSE <<>>)
            \o <<CRLF, Bytes(response.data), CRLF>>
            \o FormatValues(Tail(responses), with_unique)

format_response(response) ==
    CASE response.kind = "Data" -> FormatValues(response.responses, FALSE)
      [] response.kind = "Gets" -> FormatValues(response.responses, TRUE)
      [] response.kind = "Incr" -> <<Num(response.value), CRLF>>
      [] response.kind = "Deleted" -> <<Lit("DELETED"), CRLF>>
      [] response.kind = "Touched" -> <<Lit("TOUCHED"), CRLF>>
      [] response.kind = "Ok" -> <<Lit("OK"), CRLF>>
      [] response.kind = "Stored" -> <<Lit("STORED"), CRLF>>
      [] response.kind = "NotStored" -> <<Lit("NOT_STORED"), CRLF>>
      [] response.kind = "Exists" -> <<Lit("EXISTS"), CRLF>>
      [] response.kind = "NotFound" -> <<Lit("NOT_FOUND"), CRLF>>
      [] response.kind = "Error" -> <<Lit("ERROR"), CRLF>>
      [] response.kind = "ClientError" ->
            <<Lit("CLIENT_ERROR "), Lit(response.message), CRLF>>
      [] response.kind = "ServerError" ->
            <<Lit("SERVER_ERROR "), Lit(response.message), CRLF>>
      [] response.kind = "TooBig" -> <<Lit("SERVER_ERROR object too large for cache")>>
      [] response.kind = "Version" ->
            <<Lit("VERSION "), Lit(NAME), Lit(" "), Lit(VERSION), CRLF>>

\* if should_reply { format_response(..) } written regardless of should_reply
reply_Always(should_reply, response) == format_response(response)

\* if should_reply { format_response(response, &mut socket) }
reply(should_reply, response) ==
    IF should_reply THEN format_response(response) ELSE <<>>

\* Mutex::lock returning at once, whoever holds the mutex
lock_NoExclusion(m) == TRUE

\* Mutex::lock returns the guard once no thread holds the mutex
lock(m) == m = None

\* how many commands take the lock in one run
MaxLog == 3

CommandConfig(should_reply, command) ==
    [should_reply |-> should_reply, command |-> command]

\* what parse_command hands over: setters and delete with and without noreply,
\* getters always with should_reply; the entry of the last one does not fit
\* next to another
Requests ==
    {CommandConfig(sr, Setter("Set", 0, KeyA, SmallData, 0, 7)) : sr \in BOOLEAN}
    \cup {CommandConfig(TRUE, Setter("Set", 0, TooLongKey, SmallData, 0, 7))}
    \cup {CommandConfig(sr, Setter("Append", 0, KeyA, SmallData, 0, 0)) : sr \in BOOLEAN}
    \cup {CommandConfig(TRUE, [type |-> "Getter", getter |-> "Gets", keys |-> <<KeyA>>])}
    \cup {CommandConfig(FALSE, [type |-> "Delete", key |-> KeyA])}
    \cup {CommandConfig(TRUE, Setter("Set", 0, KeyB, LargeData, 1, 0))}

ServerClocks == {Epoch0}

Thread(c, pc_, request, ticket, response, written) ==
    [conn EXCEPT ![c] = [pc |-> pc_, request |-> request, ticket |-> ticket,
                         response |-> response, written |-> written]]

\* socket.read fails or returns 0 bytes, or parse_command returns Error
Disconnect(c) ==
    /\ conn[c].pc = "reading"
    /\ conn' = [conn EXCEPT ![c].pc = "closed"]
    /\ UNCHANGED <<map, lru, expires, capacity, weight, last_cas_id, pc, mutex, log, call, sock>>

\* the dispatch sending quit to the store like any other command
ReceiveQuit_ToStore(c) ==
    /\ conn[c].pc = "reading"
    /\ conn' = Thread(c, "locking", Some(CommandConfig(TRUE, [type |-> "Quit"])), 0,
                      None, <<>>)
    /\ UNCHANGED <<map, lru, expires, capacity, weight, last_cas_id, pc, mutex, log, call, sock>>

\* ServerCommand::Quit => return
ReceiveQuit(c) ==
    /\ conn[c].pc = "reading"
    /\ conn' = Thread(c, "closed", Some(CommandConfig(TRUE, [type |-> "Quit"])), 0,
                      None, <<>>)
    /\ UNCHANGED <<map, lru, expires, capacity, weight, last_cas_id, pc, mutex, log, call, sock>>

\* ServerCommand::Bad(text) => Response::Error, without the store
ReceiveBad(c) ==
    /\ conn[c].pc = "reading"
    /\ conn' = Thread(c, "replying", Some(CommandConfig(TRUE, [type |-> "Bad"])), 0,
                      Some(Resp("Error")), <<>>)
    /\ UNCHANGED <<map, lru, expires, capacity, weight, last_cas_id, pc, mutex, log, call, sock>>

\* _ => all others must be sent to the store: the thread goes for the lock
ReceiveCommand(c, request) ==
    /\ conn[c].pc = "reading"
    /\ conn' = Thread(c, "locking", Some(request), 0, None, <<>>)
    /\ UNCHANGED <<map, lru, expires, capacity, weight, last_cas_id, pc, mutex, log, call, sock>>

\* locked_store.lock().unwrap()
Lock(c, now) ==
    /\ conn[c].pc = "locking"
    /\ Len(log) < MaxLog
    /\ lock(mutex)
    /\ mutex' = Some(c)
    /\ log' = Append(log, [command |-> Unwrap(conn[c].request).command, now |-> now])
    /\ conn' = [conn EXCEPT ![c].pc = "applying", ![c].ticket = Len(log) + 1]
    /\ UNCHANGED <<map, lru, expires, capacity, weight, last_cas_id, pc, call, sock>>

\* unlocked_store.apply(command), and the guard dropped at the end of the arm;
\* a call that does not return keeps the guard
ApplyUnlock(c) ==
    /\ conn[c].pc = "applying"
    /\ LET r == apply(Store, log[conn[c].ticket].command, log[conn[c].ticket].now)
       IN /\ Commit(r)
          /\ mutex' = IF r.st = "ok" THEN None ELSE mutex
          /\ conn' = [conn EXCEPT ![c].pc = IF r.st = "ok" THEN "replying" ELSE r.st,
                                  ![c].response = Some(r.response)]
    /\ UNCHANGED <<log, call, sock>>

\* if should_reply { format_response(response, &mut socket) }, then the next read
Reply(c) ==
    /\ conn[c].pc = "replying"
    /\ conn' = [conn EXCEPT ![c].pc = "reading",
                            ![c].written = reply(Unwrap(conn[c].request).should_reply,
                                                 Unwrap(conn[c].response))]
    /\ UNCHANGED <<map, lru, expires, capacity, weight, last_cas_id, pc, mutex, log, call, sock>>

\* Result::Err(err) => return: a write failed before anything was sent
ReplyFails(c) ==
    /\ conn[c].pc = "replying"
    /\ Unwrap(conn[c].request).should_reply
    /\ conn' = [conn EXCEPT ![c].pc = "closed"]
    /\ UNCHANGED <<map, lru, expires, capacity, weight, last_cas_id, pc, mutex, log, call, sock>>

ServerNext ==
    \/ \E c \in Clients : Disconnect(c)
    \/ \E c \in Clients : ReceiveQuit(c)
    \/ \E c \in Clients : ReceiveBad(c)
    \/ \E c \in Clients, request \in Requests : ReceiveCommand(c, request)
    \/ \E c \in Clients, now \in ServerClocks : Lock(c, now)
    \/ \E c \in Clients : ApplyUnlock(c)
    \/ \E c \in Clients : Reply(c)
    \/ \E c \in Clients : ReplyFails(c)

ServerSpec == Init /\ [][ServerNext]_vars

-----------------------------------------------------------------------------
(* The server's read loop: what a thread does with the bytes of its socket *)

\* the commands the clients write, each one complete
ReadRequests ==
    {CommandConfig(sr, Setter("Set", 0, KeyA, SmallData, 0, 7)) : sr \in BOOLEAN}
    \cup {CommandConfig(TRUE, [type |-> "Getter", getter |-> "Gets", keys |-> <<KeyA>>])}
    \cup {CommandConfig(TRUE, [type |-> "Bad"])}

RECURSIVE SentBy(_)
SentBy(S) ==
    IF S = {} THEN 0
    ELSE LET c == CHOOSE x \in S : TRUE IN sock[c].sent + SentBy(S \ {c})

\* a client writes one complete command; the kernel queues it on the socket
ClientSend(c, request) ==
    /\ conn[c].pc # "closed"
    /\ SentBy(Clients) < MaxLog
    /\ sock' = [sock EXCEPT ![c].unread = Append(@, request), ![c].sent = @ + 1]
    /\ UNCHANGED <<map, lru, expires, capacity, weight, last_cas_id, pc, conn, mutex, log, call>>

\* parse_command(&parse_state): Done(remaining, command_config) hands over the
\* first command of the buffer, whatever follows it
parse_command(parse_state) ==
    [command_config |-> Head(parse_state), remaining |-> Tail(parse_state)]

\* socket.read returns the bytes there are (the call blocks while there are
\* none); they are added to parse_state, one command is parsed off its front
\* and dispatched: Bad is answered Error, any other goes for the lock
Read(c) ==
    /\ conn[c].pc = "reading"
    /\ sock[c].unread # <<>>
    /\ LET buffer == sock[c].parse_state \o sock[c].unread
           parsed == parse_command(buffer)
       IN /\ sock' = [sock EXCEPT ![c].unread = <<>>, ![c].parse_state = buffer]
          /\ conn' = IF parsed.command_config.command.type = "Bad"
                     THEN Thread(c, "replying", Some(parsed.command_config), 0,
                                 Some(Resp("Error")), <<>>)
                     ELSE Thread(c, "locking", Some(parsed.command_config), 0, None, <<>>)
    /\ UNCHANGED <<map, lru, expires, capacity, weight, last_cas_id, pc, mutex, log, call>>

\* if should_reply { format_response(..) }; parse_state.clear();
\* parse_state.extend_from_slice(remaining); and back to socket.read
ReplyAndLoop(c) ==
    /\ conn[c].pc = "replying"
    /\ conn' = [conn EXCEPT ![c].pc = "reading",
                            ![c].written = reply(Unwrap(conn[c].request).should_reply,
                                                 Unwrap(conn[c].response))]
    /\ sock' = [sock EXCEPT ![c].parse_state = parse_command(@).remaining,
                            ![c].done = @ + 1]
    /\ UNCHANGED <<map, lru, expires, capacity, weight, last_cas_id, pc, mutex, log, call>>

ReadNext ==
    \/ \E c \in Clients, request \in ReadRequests : ClientSend(c, request)
    \/ \E c \in Clients : Read(c)
    \/ \E c \in Clients, now \in ServerClocks : Lock(c, now)
    \/ \E c \in Clients : ApplyUnlock(c)
    \/ \E c \in Clients : ReplyAndLoop(c)

\* every thread keeps running: a step it can take it does take
ReadFairness ==
    \A c \in Clients :
        /\ WF_vars(Read(c))
        /\ WF_vars(\E now \in ServerClocks : Lock(c, now))
        /\ WF_vars(ApplyUnlock(c))
        /\ WF_vars(ReplyAndLoop(c))

ReadSpec == Init /\ [][ReadNext]_vars /\ ReadFairness

-----------------------------------------------------------------------------
(* wrap_ttl called on ttls and clock values from the whole u32 range *)

WideTtls == {<<0>>, <<1>>, <<6, 0>>, <<2, 5, 9, 1, 9, 9, 9>>, MAGIC_DATE_Digits,
             <<2, 5, 9, 2, 0, 0, 1>>, <<1, 4, 5, 5, 0, 8, 2, 8, 8, 1>>, U32_MAX}

WideClocks == {<<0>>, <<1>>, <<1, 4, 5, 5, 0, 8, 2, 8, 8, 1>>,
               <<4, 2, 9, 2, 3, 7, 5, 2, 9, 6>>, <<4, 2, 9, 2, 3, 7, 5, 2, 9, 7>>,
               <<4, 2, 9, 4, 9, 6, 7, 2, 9, 4>>, U32_MAX}

Builds == {"checked", "unchecked"}

TtlInit ==
    /\ map = new(Capacity).map
    /\ lru = new(Capacity).lru
    /\ expires = new(Capacity).expires
    /\ capacity = new(Capacity).capacity
    /\ weight = new(Capacity).weight
    /\ last_cas_id = 0
    /\ pc = "ready"
    /\ conn = [c \in Clients |-> Idle]
    /\ mutex = None
    /\ log = <<>>
    /\ sock = [c \in Clients |-> Quiet]
    /\ call \in {[ttl |-> t, now |-> n, build |-> b, out |-> None] :
                   t \in WideTtls, n \in WideClocks, b \in Builds}

CallWrapTtl ==
    /\ call.out = None
    /\ call' = [call EXCEPT !.out = Some(wrap_ttl_u32(call.ttl, call.now, call.build))]
    /\ UNCHANGED <<map, lru, expires, capacity, weight, last_cas_id, pc, conn, mutex, log, sock>>

TtlNext == CallWrapTtl

TtlSpec == TtlInit /\ [][TtlNext]_vars

-----------------------------------------------------------------------------
(* Properties of the engine, checked under LruSpec *)

AllSetArgs == Keys \X Values \X OptTimes \X Times

SetOf(a) == set(Cache, a[1], a[2], a[3], a[4])

\* an iteration of the eviction loop that removed an entry
Evicted(step) == step.victim # <<>> /\ step.victim[1] \in DOMAIN step.before.map

AnyExpired(c, now) == \E k \in DOMAIN c.map : expired(c.map[k].expires, now)

\* C1: whenever a public operation has returned, the total weight is at most
\* the capacity.
C1_WeightBound == pc = "ready" => weight <= capacity

\* C1 witness: a full cache from which a set returns after evicting two entries.
C1_Witness ==
    /\ pc = "ready"
    /\ \E a \in AllSetArgs :
          /\ SetOf(a).ret /\ SetOf(a).st = "ok"
          /\ Len(SetOf(a).steps) = 2
          /\ \A i \in 1..2 : Evicted(SetOf(a).steps[i])

\* C2: every call to set terminates: the eviction loop never runs for ever.
C2_SetTerminates == pc # "hung"

\* C3: after delete(key) returns true the key is in neither the primary mapping,
\* the recency index nor the expiration index, and the weight has dropped by
\* the entry's weight.
C3_DeleteRemovesEverywhere ==
    \A key \in Keys :
        LET r == delete(Cache, key)
        IN r.ret =>
             /\ key \notin DOMAIN r.c.map
             /\ \A p \in r.c.lru : p[2] # key
             /\ \A p \in r.c.expires : p[2] # key
             /\ r.c.weight = weight - map[key].weight

\* C4: every stored key has exactly one pair in the recency index, carrying the
\* entry's used, and has a pair in the expiration index exactly when the entry
\* has an expires value, that pair being (expires, key).
C4_IndexConsistency ==
    \A key \in DOMAIN map :
        /\ {p \in lru : p[2] = key} = {<<map[key].used, key>>}
        /\ {p \in expires : p[2] = key} =
              IF IsSome(map[key].expires)
              THEN {<<Unwrap(map[key].expires), key>>}
              ELSE {}

\* C5: expired-first eviction: when a set evicts an entry that is not expired at
\* now, no entry stored at that moment is expired at now.
C5_ExpiredFirst ==
    \A a \in AllSetArgs :
        \A i \in 1..Len(SetOf(a).steps) :
            LET step == SetOf(a).steps[i]
            IN (Evicted(step)
                /\ ~expired(step.before.map[step.victim[1]].expires, a[4]))
               => ~AnyExpired(step.before, a[4])

\* C6: LRU victim order: when a set evicts and no stored entry is expired at
\* now, the victim is the stored entry with the smallest (used, key) pair.
C6_LruOrder ==
    \A a \in AllSetArgs :
        \A i \in 1..Len(SetOf(a).steps) :
            LET step == SetOf(a).steps[i]
                m    == step.before.map
            IN (Evicted(step) /\ ~AnyExpired(step.before, a[4]))
               => \A k \in DOMAIN m \ {step.victim[1]} :
                      PairLess(<<m[step.victim[1]].used, step.victim[1]>>,
                               <<m[k].used, k>>)

\* C7: set round-trip: a set of an entry that fits the capacity, with an expires
\* not expired at now, returns true and get(key, now) right after it returns
\* the value, whatever the cache held before.
C7_SetRoundTrip ==
    \A a \in AllSetArgs :
        (compute_weight(a[1], a[2]) <= capacity /\ ~expired(a[3], a[4]))
        => /\ SetOf(a).st = "ok"
           /\ SetOf(a).ret
           /\ get(SetOf(a).c, a[1], a[4]).ret = Some(a[2])

-----------------------------------------------------------------------------
(* Properties of the interpreter, checked under Spec *)

AllSetters == Setters \cup EdgeSetters

\* the data the command would store: for append and prepend on a present key
\* the old data joined with the new, otherwise the data supplied
ResultingData(cmd, now) ==
    IF cmd.setter \in {"Append", "Prepend"} /\ contains(Cache, cmd.key, now)
    THEN IF cmd.setter = "Append"
         THEN BConcat(Unwrap(fast_get(Cache, cmd.key, now)).data, cmd.data)
         ELSE BConcat(cmd.data, Unwrap(fast_get(Cache, cmd.key, now)).data)
    ELSE cmd.data

\* C8: a setter command whose resulting item is larger than the capacity, and
\* that is not refused with NotStored, Exists or NotFound, is answered TooBig.
C8_OversizeIsTooBig ==
    \A cmd \in AllSetters, now \in Clocks :
        LET r == apply(Store, cmd, now)
        IN (/\ r.st = "ok"
            /\ compute_weight(cmd.key, Container(ResultingData(cmd, now), 0, 0)) > capacity
            /\ r.response.kind \notin {"NotStored", "Exists", "NotFound"})
           => r.response.kind = "TooBig"

\* C9: after a set command for k is answered Stored, a get of k at the same
\* clock value misses or returns the data and flags just supplied, never the
\* value stored before.
C9_SetOverwrites ==
    \A cmd \in {c \in Setters : c.setter = "Set"}, now \in Clocks :
        LET r == apply(Store, cmd, now)
            g == apply([store |-> r.store, last_cas_id |-> r.last_cas_id],
                       [type |-> "Getter", getter |-> "Get", keys |-> <<cmd.key>>],
                       now)
        IN (r.st = "ok" /\ r.response.kind = "Stored")
           => \A i \in 1..Len(g.response.responses) :
                  /\ g.response.responses[i].data = cmd.data
                  /\ g.response.responses[i].flags = cmd.flags

\* C10: a setter command with a key longer than 255 bytes or data longer than
\* 1,048,576 bytes is answered TooBig and changes nothing: the engine and the
\* CAS counter are as before.
C10_SizeGate ==
    \A cmd \in AllSetters, now \in Clocks :
        (BLen(cmd.key) > 255 \/ BLen(cmd.data) > 1048576)
        => apply(Store, cmd, now) =
             Applied(Cache, last_cas_id, Resp("TooBig"), "ok", None)

\* C10 witness: a cache holding an expiring entry under a key, tokens already
\* minted, where a command on that key with oversized data is answered TooBig.
C10_Witness ==
    /\ pc = "ready"
    /\ last_cas_id > 0
    /\ \E cmd \in EdgeSetters, now \in Clocks :
          /\ BLen(cmd.data) > MAX_DATA
          /\ cmd.key \in DOMAIN map
          /\ IsSome(map[cmd.key].expires)
          /\ apply(Store, cmd, now).response.kind = "TooBig"

-----------------------------------------------------------------------------
(* Properties of the interpreter's commands, checked under Spec *)

\* the commands that can be refused
Refusable == Setters \cup EdgeSetters \cup NumSetters \cup Incrs \cup Deletes \cup Touches

Refusals == {"NotStored", "Exists", "NotFound"}

\* C11: a command answered NotStored, Exists or NotFound leaves the engine as
\* it was: the mapping with every entry's data, flags, unique, expires and used,
\* both indices and the weight.
C11_RefusedChangesNothing ==
    \A cmd \in Refusable, now \in Clocks :
        LET r == apply(Store, cmd, now)
        IN r.response.kind \in Refusals => r.store = Cache

\* C11 witness: a cas with a wrong token on a key last used at another time is
\* answered Exists, and an incr on a stored but expired key NotFound.
C11_Witness ==
    /\ pc = "ready"
    /\ \E cmd \in Setters, now \in Clocks :
          /\ cmd.setter = "Cas"
          /\ cmd.key \in DOMAIN map
          /\ map[cmd.key].used # now
          /\ apply(Store, cmd, now).response.kind = "Exists"
    /\ \E cmd \in Incrs, now \in Clocks :
          /\ cmd.key \in DOMAIN map
          /\ apply(Store, cmd, now).response.kind = "NotFound"

\* what a key holds for a reader at now: None, or Some(container)
Held(c, key, now) == fast_get(c, key, now)

\* the item a setter supplies, as a reader at now should find it once stored:
\* nothing when its ttl is already past
Supplied(cmd, unique, now) ==
    IF expired(wrap_ttl(cmd.ttl, now), now) THEN None
    ELSE Some(Container(cmd.data, cmd.flags, unique))

Fits(key, data) == compute_weight(key, Container(data, 0, 0)) <= capacity

\* C12: add on a key not present at now (absent or expired) stores the supplied
\* data and answers Stored, on a present key it answers NotStored and the old
\* value stays; replace stores and answers Stored on a present key, and answers
\* NotStored on a key not present, which stays absent.  Items that fit the
\* capacity only.
C12_AddReplace ==
    \A cmd \in {c \in Setters : c.setter \in {"Add", "Replace"}}, now \in Clocks :
        LET r       == apply(Store, cmd, now)
            present == contains(Cache, cmd.key, now)
            stores  == IF cmd.setter = "Add" THEN ~present ELSE present
        IN Fits(cmd.key, cmd.data)
           => /\ r.st = "ok"
              /\ IF stores
                 THEN /\ r.response.kind = "Stored"
                      /\ Held(r.store, cmd.key, now) = Supplied(cmd, r.last_cas_id, now)
                 ELSE /\ r.response.kind = "NotStored"
                      /\ Held(r.store, cmd.key, now) = Held(Cache, cmd.key, now)

\* C13: append (prepend) on a key present at now answers Stored, and afterwards
\* the key holds the old data followed by the new (the new followed by the
\* old), with the entry's previous expires and flags and a newly minted token.
C13_Splice ==
    \A cmd \in {c \in Setters : c.setter \in {"Append", "Prepend"}}, now \in Clocks :
        LET r == apply(Store, cmd, now)
        IN contains(Cache, cmd.key, now)
           => /\ r.st = "ok"
              /\ r.response.kind = "Stored"
              /\ cmd.key \in DOMAIN r.store.map
              /\ r.store.map[cmd.key].data =
                    Container(ResultingData(cmd, now), map[cmd.key].data.flags,
                              last_cas_id + 1)
              /\ r.store.map[cmd.key].expires = map[cmd.key].expires

CasSetters == {c \in Setters : c.setter = "Cas"}

\* C14: cas(expected) answers NotFound when the key is not present at now,
\* Exists when it is present with another unique, and Stored when the stored
\* unique equals expected; on Stored the key holds the supplied data, flags and
\* ttl.
C14_Cas ==
    \A cmd \in CasSetters, now \in Clocks :
        LET r == apply(Store, cmd, now)
        IN /\ r.st = "ok"
           /\ IF ~contains(Cache, cmd.key, now)
              THEN r.response.kind = "NotFound"
              ELSE IF map[cmd.key].data.unique # cmd.unique
              THEN r.response.kind = "Exists"
              ELSE /\ r.response.kind = "Stored"
                   /\ cmd.key \in DOMAIN r.store.map
                   /\ r.store.map[cmd.key].data.data = cmd.data
                   /\ r.store.map[cmd.key].data.flags = cmd.flags
                   /\ r.store.map[cmd.key].expires = wrap_ttl(cmd.ttl, now)

\* the Store a call of apply leaves
After(r) == [store |-> r.store, last_cas_id |-> r.last_cas_id]

\* the commands that write a key when they succeed
Writers == Setters \cup NumSetters \cup Incrs

\* C15: a token is usable once.  When a cas, set, add, replace, append, prepend,
\* incr or decr on a stored key k is answered Stored (or Incr), no cas on k that
\* carries the unique k held before that command is answered Stored afterwards.
C15_TokenOnce ==
    \A cmd \in Writers, now \in Clocks :
        LET r == apply(Store, cmd, now)
        IN (/\ r.st = "ok"
            /\ r.response.kind \in {"Stored", "Incr"}
            /\ cmd.key \in DOMAIN map)
           => \A p \in Payloads, t \in Ttls, later \in Clocks :
                 later >= now
                 => apply(After(r),
                          Setter("Cas", map[cmd.key].data.unique, cmd.key,
                                 p.data, t, p.flags),
                          later).response.kind # "Stored"

\* C16: last_cas_id never decreases, and a command that writes a version of a
\* key gives it a unique greater than the counter before the command, hence
\* greater than every unique stored by an earlier command.
C16_TokensIncrease ==
    [][/\ last_cas_id' >= last_cas_id
       /\ \A k \in DOMAIN map' :
             \/ k \in DOMAIN map /\ map'[k].data = map[k].data
             \/ /\ map'[k].data.unique > last_cas_id
                /\ map'[k].data.unique <= last_cas_id'
                /\ \A j \in DOMAIN map : map[j].data.unique < map'[k].data.unique]_vars

\* C16 witness: three tokens minted, the stored versions carrying different
\* ones, the newest of them the counter's value.
C16_Witness ==
    /\ pc = "ready"
    /\ last_cas_id = MaxCas
    /\ \E k1 \in DOMAIN map, k2 \in DOMAIN map :
          /\ map[k1].data.unique < map[k2].data.unique
          /\ map[k2].data.unique = last_cas_id

\* the record a getter returns for a key the cache holds
Record(key) == [key |-> key, data |-> map[key].data.data,
                flags |-> map[key].data.flags, unique |-> map[key].data.unique]

\* one record per requested key present at now, in the order of the request
Records(keys, now) ==
    LET hits == SelectSeq(keys, LAMBDA k : contains(Cache, k, now))
    IN [i \in 1..Len(hits) |-> Record(hits[i])]

\* C17: get and gets return one record {key, data, flags, unique} for each
\* requested key present at now, in the order requested, repeated keys giving
\* repeated records, and none for absent or expired keys; get answers with a
\* Data response and gets with a Gets response.
C17_GetMulti ==
    \A cmd \in Getters, now \in Clocks :
        LET r == apply(Store, cmd, now)
        IN /\ r.st = "ok"
           /\ r.response.kind = (IF cmd.getter = "Get" THEN "Data" ELSE "Gets")
           /\ r.response.responses = Records(cmd.keys, now)

\* C17 witness: one key present, the other stored but expired, and requests
\* that name the present key twice and both keys in either order.
C17_Witness ==
    /\ pc = "ready"
    /\ \E now \in Clocks, k1 \in Keys2, k2 \in Keys2 :
          /\ contains(Cache, k1, now)
          /\ k2 \in DOMAIN map /\ ~contains(Cache, k2, now)
          /\ map[k1].data.unique # 0
          /\ Len(Records(<<k1, k1>>, now)) = 2
          /\ Len(Records(<<k2, k1>>, now)) = 1
          /\ \E cmd \in Getters : cmd.keys = <<k2, k1>>

\* a string of ASCII digits only, one at least, denoting a number up to u64::MAX
IsDecimalU64(data) ==
    /\ data # <<>>
    /\ \A i \in 1..Len(data) : IsDigit(data[i][1])
    /\ ~NLess(U64_MAX, StripZeros(DigitsOf(data)))

\* n = (c + v) mod 2^64
IsWrappedSum(n, c, v) ==
    /\ ~NLess(U64_MAX, n)
    /\ NAdd(c, v) = n \/ NAdd(c, v) = NAdd(n, TWO_64)

\* n = max(c - v, 0)
IsFlooredDifference(n, c, v) == IF NLess(c, v) THEN n = <<0>> ELSE NAdd(n, v) = c

\* the decimal ASCII form of n: its digits, no zero in front
IsDecimalForm(data, n) ==
    /\ data # <<>>
    /\ \A i \in 1..Len(data) : IsDigit(data[i][1])
    /\ DigitsOf(data) = n
    /\ StripZeros(n) = n

\* C18: for a present key whose data is a decimal u64 c, and a delta v, incr
\* answers Incr((c + v) mod 2^64) and decr answers Incr(max(c - v, 0)), and the
\* key then holds the decimal ASCII form of the number answered.
C18_IncrDecr ==
    \A cmd \in Incrs, now \in Clocks :
        LET r == apply(Store, cmd, now)
            c == StripZeros(DigitsOf(map[cmd.key].data.data))
        IN (contains(Cache, cmd.key, now) /\ IsDecimalU64(map[cmd.key].data.data))
           => /\ r.st = "ok"
              /\ r.response.kind = "Incr"
              /\ IF cmd.incrementer = "Incr"
                 THEN IsWrappedSum(r.response.value, c, cmd.value)
                 ELSE IsFlooredDifference(r.response.value, c, cmd.value)
              /\ contains(r.store, cmd.key, now)
              /\ IsDecimalForm(r.store.map[cmd.key].data.data, r.response.value)

\* empty, or with a byte that is not an ASCII digit
IsNonNumeric(data) == data = <<>> \/ \E i \in 1..Len(data) : ~IsDigit(data[i][1])

\* C19: incr and decr on a present key whose data is empty or holds a byte
\* that is not an ASCII digit (a '+' in front included) are answered
\* ClientError("cannot increment or decrement non-numeric value"), and the
\* entry's data, flags, unique and expires stay as they were.
C19_NonNumeric ==
    \A cmd \in Incrs, now \in Clocks :
        LET r == apply(Store, cmd, now)
        IN (contains(Cache, cmd.key, now) /\ IsNonNumeric(map[cmd.key].data.data))
           => /\ r.st = "ok"
              /\ r.response = [kind |-> "ClientError",
                               message |-> "cannot increment or decrement non-numeric value"]
              /\ cmd.key \in DOMAIN r.store.map
              /\ r.store.map[cmd.key].data = map[cmd.key].data
              /\ r.store.map[cmd.key].expires = map[cmd.key].expires

\* C20: an incr or decr answered Incr keeps the entry's expires and flags and
\* gives it a newly minted token, so that a cas carrying the token the entry
\* had before is answered Exists.
C20_IncrKeeps ==
    \A cmd \in Incrs, now \in Clocks :
        LET r == apply(Store, cmd, now)
        IN (r.st = "ok" /\ r.response.kind = "Incr")
           => /\ cmd.key \in DOMAIN r.store.map
              /\ r.store.map[cmd.key].expires = map[cmd.key].expires
              /\ r.store.map[cmd.key].data.flags = map[cmd.key].data.flags
              /\ r.store.map[cmd.key].data.unique > last_cas_id
              /\ \A p \in Payloads, t \in Ttls :
                    apply(After(r),
                          Setter("Cas", map[cmd.key].data.unique, cmd.key,
                                 p.data, t, p.flags),
                          now).response.kind = "Exists"

\* C21: delete answers Deleted when the key is in the primary mapping and
\* NotFound otherwise; a second delete of the same key right after is answered
\* NotFound and leaves the state the first delete left.
C21_DeleteIdempotent ==
    \A cmd \in Deletes, now \in Clocks, later \in Clocks :
        LET r1 == apply(Store, cmd, now)
            r2 == apply(After(r1), cmd, later)
        IN /\ r1.st = "ok" /\ r2.st = "ok"
           /\ r1.response.kind = (IF cmd.key \in DOMAIN map THEN "Deleted" ELSE "NotFound")
           /\ delete(Cache, cmd.key).ret = (cmd.key \in DOMAIN map)
           /\ ~delete(delete(Cache, cmd.key).c, cmd.key).ret
           /\ cmd.key \notin DOMAIN r1.store.map
           /\ r2.response.kind = "NotFound"
           /\ After(r2) = After(r1)

\* C21 witness: a stored key that is expired at one of the clock readings and
\* has an expiration, and another key that is not stored.
C21_Witness ==
    /\ pc = "ready"
    /\ \E cmd \in Deletes, now \in Clocks :
          /\ cmd.key \in DOMAIN map
          /\ ~contains(Cache, cmd.key, now)
          /\ apply(Store, cmd, now).response.kind = "Deleted"
    /\ \E cmd \in Deletes, now \in Clocks :
          apply(Store, cmd, now).response.kind = "NotFound"

\* the expiration a ttl stands for at now: none for 0, now + ttl below thirty
\* days, the ttl itself from thirty days on
ExpiresFor(ttl, now) ==
    IF ttl = 0 THEN None
    ELSE IF ttl < 2592000 THEN Some(now + ttl)
    ELSE Some(ttl)

\* C22: touch on a key present at now answers Touched and sets the entry's
\* expires to the expiration the ttl stands for, the entry's data, flags,
\* unique and weight and the total weight staying as they were; on a key not
\* present it answers NotFound.
C22_Touch ==
    \A cmd \in Touches, now \in Clocks :
        LET r == apply(Store, cmd, now)
        IN /\ r.st = "ok"
           /\ IF contains(Cache, cmd.key, now)
              THEN /\ r.response.kind = "Touched"
                   /\ DOMAIN r.store.map = DOMAIN map
                   /\ r.store.map[cmd.key].expires = ExpiresFor(cmd.ttl, now)
                   /\ r.store.map[cmd.key].data = map[cmd.key].data
                   /\ r.store.map[cmd.key].weight = map[cmd.key].weight
                   /\ r.store.weight = weight
              ELSE r.response.kind = "NotFound"

\* C22 witness: a present key with an expiration, for which a touch with ttl 0
\* clears it and a touch with a relative ttl moves it; and a key not present.
C22_Witness ==
    /\ pc = "ready"
    /\ \E k \in Keys2, now \in Clocks :
          /\ contains(Cache, k, now)
          /\ IsSome(map[k].expires)
          /\ map[k].data.unique # 0
          /\ apply(Store, [type |-> "Touch", key |-> k, ttl |-> 0], now)
                .store.map[k].expires = None
          /\ apply(Store, [type |-> "Touch", key |-> k, ttl |-> 1], now)
                .store.map[k].expires = Some(now + 1)
    /\ \E cmd \in Touches, now \in Clocks :
          apply(Store, cmd, now).response.kind = "NotFound"

FlushAll == [type |-> "FlushAll"]

\* C24: flush_all answers Ok and empties the engine: the primary mapping, the
\* recency index and the expiration index are empty and the weight is 0, and
\* every key misses on get and gets as long as it is not set again.
C24_FlushAll ==
    \A now \in Clocks :
        LET r == apply(Store, FlushAll, now)
        IN /\ r.st = "ok"
           /\ r.response.kind = "Ok"
           /\ DOMAIN r.store.map = {}
           /\ r.store.lru = {}
           /\ r.store.expires = {}
           /\ r.store.weight = 0
           /\ r.store.capacity = capacity
           /\ r.last_cas_id = last_cas_id
           /\ \A cmd \in Getters, later \in Clocks :
                 apply(After(r), cmd, later).response.responses = <<>>

\* C24 witness: a cache holding a live entry, with an expiration pair in the
\* expiration index, about to be flushed.
C24_Witness ==
    /\ pc = "ready"
    /\ weight > 0
    /\ expires # {}
    /\ lru # {}
    /\ \E k \in DOMAIN map, now \in Clocks : contains(Cache, k, now)
    /\ \E now \in Clocks : apply(Store, FlushAll, now).response.kind = "Ok"

\* every command but Quit
Commands == Refusable \cup Getters \cup Others

\* C26: from every state the store reaches, apply returns a response for every
\* command other than Quit: it neither panics nor runs for ever.
C26_AlwaysAnswers ==
    pc = "ready"
    => \A cmd \in Commands, now \in Clocks :
          /\ apply(Store, cmd, now).st = "ok"
          /\ apply(Store, cmd, now).response.kind # "none"

\* the cache as it would be had key never been stored: no entry, no pair in
\* either index, and the entry's weight not counted
NeverStored(c, key) ==
    [c EXCEPT !.map = [k \in DOMAIN c.map \ {key} |-> c.map[k]],
              !.lru = {p \in c.lru : p[2] # key},
              !.expires = {p \in c.expires : p[2] # key},
              !.weight = c.weight - (IF key \in DOMAIN c.map THEN c.map[key].weight ELSE 0)]

\* get, gets, add, replace, append, prepend, cas, touch, incr and decr on key
OnKey(key) ==
    {c \in Getters : \E i \in 1..Len(c.keys) : c.keys[i] = key}
    \cup {c \in Setters \cup Touches \cup Incrs :
            c.key = key /\ (c.type = "Setter" => c.setter # "Set")}

\* C30: for get, gets, add, replace, append, prepend, cas, touch, incr and decr,
\* a key whose entry is expired at now but still stored gives the response, and
\* the content of the key afterwards, that the command gives where the key was
\* never stored.
C30_ExpiredIsAbsent ==
    \A key \in DOMAIN map, now \in Clocks :
        expired(map[key].expires, now)
        => \A cmd \in OnKey(key) :
              LET r1 == apply(Store, cmd, now)
                  r2 == apply([store |-> NeverStored(Cache, key),
                               last_cas_id |-> last_cas_id], cmd, now)
              IN /\ r1.st = r2.st
                 /\ r1.response = r2.response
                 /\ Held(r1.store, key, now) = Held(r2.store, key, now)

-----------------------------------------------------------------------------
(* Properties of expiration in the engine, checked under LruSpec *)

\* an entry is live at now when it has no expires or its expires is >= now
Live(entry, now) == entry.expires = None \/ Unwrap(entry.expires) >= now

\* C29: expiration is strict: get, fast_get and contains at now find an entry
\* that has no expires or whose expires is >= now, the one expiring exactly at
\* now included, and find nothing exactly when its expires is < now.
C29_StrictExpiration ==
    \A key \in Keys, now \in Times :
        LET present == key \in DOMAIN map /\ Live(map[key], now)
        IN /\ IsSome(get(Cache, key, now).ret) = present
           /\ IsSome(fast_get(Cache, key, now)) = present
           /\ contains(Cache, key, now) = present
           /\ present => /\ Unwrap(get(Cache, key, now).ret) = map[key].data
                         /\ Unwrap(fast_get(Cache, key, now)) = map[key].data

\* C29 witness: an entry expiring exactly at the time of the read, found, next
\* to one that expired the second before, not found.
C29_Witness ==
    /\ pc = "ready"
    /\ \E k1 \in DOMAIN map, k2 \in DOMAIN map :
          /\ map[k1].expires = Some(MaxTime)
          /\ map[k2].expires = Some(MaxTime - 1)
          /\ contains(Cache, k1, MaxTime)
          /\ IsSome(get(Cache, k1, MaxTime).ret)
          /\ ~contains(Cache, k2, MaxTime)
          /\ contains(Cache, k2, MaxTime - 1)

-----------------------------------------------------------------------------
(* Properties of wrap_ttl, checked under TtlSpec *)

\* C23: for every 32-bit ttl t and clock value now, wrap_ttl(t, now) returns no
\* expiration when t = 0, exactly now + t when 0 < t < 2,592,000, and exactly t
\* when t >= 2,592,000; it neither wraps around nor fails.
C23_WrapTtl ==
    IsSome(call.out)
    => /\ Unwrap(call.out).st = "ok"
       /\ Unwrap(call.out).ret =
             (IF call.ttl = <<0>> THEN None
              ELSE IF NLess(call.ttl, <<2, 5, 9, 2, 0, 0, 0>>)
              THEN Some(NAdd(call.now, call.ttl))
              ELSE Some(call.ttl))

-----------------------------------------------------------------------------
(* The server's claims *)

\* the store a server starts with
Fresh == [store |-> new(Capacity), last_cas_id |-> 0]

\* the commands of l applied one at a time, in order, to a fresh store: the
\* store reached, the response of each, and whether the last call returned
RECURSIVE Replay(_)
Replay(l) ==
    IF l = <<>> THEN [s |-> Fresh, responses |-> <<>>, st |-> "ok"]
    ELSE LET before == Replay(SubSeq(l, 1, Len(l) - 1))
             r == apply(before.s, l[Len(l)].command, l[Len(l)].now)
         IN [s |-> After(r), responses |-> Append(before.responses, r.response),
             st |-> r.st]

Applying == {c \in Clients : conn[c].pc = "applying"}

\* C25: with clients served in parallel at most one command is being applied
\* to the store at any moment, and the store and every response are those of
\* applying the same commands one at a time in the order the lock was taken:
\* while a command holds the lock the store is the replay of the commands
\* before it, otherwise the replay of all of them, and the response kept for
\* each client is the replay's response at the client's place in that order.
C25_Linearized ==
    /\ Cardinality(Applying) <= 1
    /\ mutex = None <=> Applying = {}
    /\ Store = Replay(IF Applying = {} THEN log ELSE SubSeq(log, 1, Len(log) - 1)).s
    /\ \A c \in Clients :
          /\ conn[c].pc = "applying" => mutex = Some(c) /\ conn[c].ticket = Len(log)
          /\ (conn[c].ticket > 0 /\ conn[c].pc \in {"replying", "reading", "closed"})
             => conn[c].response = Some(Replay(log).responses[conn[c].ticket])

\* one client's command is being applied while the other waits for the lock,
\* after an earlier command of the waiting client went through the store
C25_Witness ==
    \E c, d \in Clients :
        /\ c # d
        /\ conn[c].pc = "applying"
        /\ conn[d].pc = "locking"
        /\ Len(log) = 2
        /\ log[1].command.type = "Setter"
        /\ log[2].command.type = "Setter"
        /\ log[2].command.setter = "Append"

\* the requests that went through the store and are done
Served(c) ==
    /\ conn[c].pc = "reading"
    /\ conn[c].ticket > 0

\* C27: a command sent with noreply is applied to the store with the effect it
\* has without noreply (the store is the replay of the commands, which carry
\* no reply flag, and the command is in that order at the client's place), and
\* nothing is written to the client's socket for it.
C27_NoReply ==
    \A c \in Clients :
        (Served(c) /\ ~Unwrap(conn[c].request).should_reply)
        => /\ conn[c].written = <<>>
           /\ log[conn[c].ticket].command = Unwrap(conn[c].request).command
           /\ mutex = None => Store = Replay(log).s

\* a noreply set went through: the key is stored and the socket is untouched
C27_Witness ==
    \E c \in Clients :
        /\ Served(c)
        /\ ~Unwrap(conn[c].request).should_reply
        /\ Unwrap(conn[c].request).command.type = "Setter"
        /\ Unwrap(conn[c].request).command.setter = "Set"
        /\ KeyA \in DOMAIN map
        /\ conn[c].written = <<>>
        /\ Len(log) = 1

\* C28: every response written to the socket is terminated by CRLF, TooBig too.
C28_CrlfTerminated ==
    \A c \in Clients :
        (conn[c].pc = "reading" /\ conn[c].written # <<>>)
        => conn[c].written[Len(conn[c].written)] = CRLF

-----------------------------------------------------------------------------
(* Further properties of the engine and of the interpreter *)

\* C31: delete is time-agnostic: deleting a key whose entry is expired but
\* still held in the primary mapping returns true (the Delete command answers
\* Deleted), removes the entry and reduces the weight by the entry's weight.
C31_DeleteExpired ==
    \A key \in DOMAIN map, now \in Clocks :
        expired(map[key].expires, now)
        => LET r == delete(Cache, key)
               a == apply(Store, [type |-> "Delete", key |-> key], now)
           IN /\ r.ret
              /\ key \notin DOMAIN r.c.map
              /\ \A k \in DOMAIN map \ {key} : k \in DOMAIN r.c.map /\ r.c.map[k] = map[k]
              /\ r.c.weight = weight - map[key].weight
              /\ a.st = "ok"
              /\ a.response.kind = "Deleted"
              /\ a.store = r.c

\* C31 witness: an expired entry held next to a live one, deleted on command.
C31_Witness ==
    /\ pc = "ready"
    /\ \E key \in DOMAIN map, other \in DOMAIN map, now \in Clocks :
          /\ expired(map[key].expires, now)
          /\ ~contains(Cache, key, now)
          /\ contains(Cache, other, now)
          /\ apply(Store, [type |-> "Delete", key |-> key], now).response.kind = "Deleted"
          /\ apply(Store, [type |-> "Delete", key |-> key], now).store.weight
                = weight - map[key].weight

\* C32: LruCache::set called with an expires that is already expired at now
\* returns false and leaves the whole cache as it was: nothing is stored,
\* nothing is evicted, an entry already held under the key stays.
C32_SetExpiredRejected ==
    \A a \in AllSetArgs :
        expired(a[3], a[4])
        => /\ SetOf(a).st = "ok"
           /\ ~SetOf(a).ret
           /\ SetOf(a).steps = <<>>
           /\ SetOf(a).c = Cache

\* C32 witness: the key is held, the cache is too full for a second large
\* entry, and a set of that key with a past expires is turned down.
C32_Witness ==
    /\ pc = "ready"
    /\ KeyA \in DOMAIN map /\ KeyB \in DOMAIN map
    /\ weight + compute_weight(KeyA, Container(LargeData, 0, 0)) > capacity
    /\ LET r == set(Cache, KeyA, Container(LargeData, 0, 0), Some(1), 2)
       IN ~r.ret /\ r.c = Cache

\* what the cache holds about key k: its entry and its pairs in the two indexes
Holding(c, k) ==
    [entry |-> IF k \in DOMAIN c.map THEN Some(c.map[k]) ELSE None,
     lru |-> {p \in c.lru : p[2] = k},
     expires |-> {p \in c.expires : p[2] = k}]

\* C33: LruCache::set of an item whose weight is strictly larger than the
\* capacity returns false, stores nothing and evicts no entry held under any
\* other key: every other key is present afterwards exactly as before.
C33_OversizeRejected ==
    \A a \in AllSetArgs :
        compute_weight(a[1], a[2]) > capacity
        => /\ SetOf(a).st = "ok"
           /\ ~SetOf(a).ret
           /\ SetOf(a).steps = <<>>
           /\ DOMAIN SetOf(a).c.map \subseteq DOMAIN map
           /\ a[1] \in DOMAIN SetOf(a).c.map => SetOf(a).c.map[a[1]] = map[a[1]]
           /\ \A k \in Keys \ {a[1]} : Holding(SetOf(a).c, k) = Holding(Cache, k)

\* C33 witness: two keys are held and a set of a third key with an item heavier
\* than the capacity is turned down, both keys staying.
C33_Witness ==
    /\ pc = "ready"
    /\ DOMAIN map = {KeyA, KeyB}
    /\ compute_weight(KeyC, Container(HugeData, 0, 0)) > capacity
    /\ LET r == set(Cache, KeyC, Container(HugeData, 0, 0), None, 1)
       IN ~r.ret /\ DOMAIN r.c.map = {KeyA, KeyB}

\* the keys other than key that c1 holds and c2 does not
Dropped(c1, c2, key) == (DOMAIN c1.map \ DOMAIN c2.map) \ {key}

\* C34: eviction is minimal.  For a set that gets as far as making room (its
\* expires is not expired, its weight is within the capacity): when the weight
\* left after the key's old entry is dropped, plus the new weight, is at most
\* the capacity, no entry of another key is removed; every iteration of the
\* eviction loop starts from a cache the new entry does not fit in; and every
\* other key that is gone was the victim of one of those iterations.
C34_MinimalEviction ==
    \A a \in AllSetArgs :
        LET w  == compute_weight(a[1], a[2])
            c1 == delete(Cache, a[1]).c
            r  == SetOf(a)
        IN (~expired(a[3], a[4]) /\ w <= capacity)
           => /\ c1.weight + w <= capacity
                 => /\ r.steps = <<>>
                    /\ r.st = "ok"
                    /\ Dropped(Cache, r.c, a[1]) = {}
                    /\ \A k \in DOMAIN map \ {a[1]} : r.c.map[k] = map[k]
              /\ \A i \in 1..Len(r.steps) : r.steps[i].before.weight + w > capacity
              /\ \A k \in Dropped(Cache, r.c, a[1]) :
                    \E i \in 1..Len(r.steps) : r.steps[i].victim = <<k>>

\* C34 witness: of two entries held, a set of a third key evicts exactly one,
\* the other one staying, and a set that fits as it is evicts none.
C34_Witness ==
    /\ pc = "ready"
    /\ DOMAIN map = {KeyA, KeyB}
    /\ LET r == set(Cache, KeyC, Container(SmallData, 0, 0), None, MaxTime)
       IN /\ r.st = "ok" /\ r.ret
          /\ Len(r.steps) = 1
          /\ Cardinality(DOMAIN r.c.map) = 2
    /\ LET r == set(Cache, KeyA, Container(SmallData, 0, 0), None, MaxTime)
       IN /\ r.st = "ok" /\ r.ret
          /\ r.steps = <<>>
          /\ DOMAIN r.c.map = {KeyA, KeyB}

\* C35: a get that hits sets the entry's used to now and moves its pair in the
\* recency index to (now, key), and changes nothing else: the entry's data,
\* expires and weight, the expiration index, every other entry, the capacity
\* and the total weight are as before.
C35_GetHitFrame ==
    \A key \in Keys, now \in Times :
        LET r == get(Cache, key, now)
        IN IsSome(r.ret)
           => /\ r.c.map = [map EXCEPT ![key].used = now]
              /\ r.c.lru = (lru \ {<<map[key].used, key>>}) \cup {<<now, key>>}
              /\ {p \in r.c.lru : p[2] = key} = {<<now, key>>}
              /\ r.c.expires = expires
              /\ r.c.weight = weight
              /\ r.c.capacity = capacity

\* C35 witness: of two entries, the one used first is read later and moves
\* behind the other in the recency index.
C35_Witness ==
    /\ pc = "ready"
    /\ \E k1 \in DOMAIN map, k2 \in DOMAIN map :
          /\ k1 # k2
          /\ map[k1].used = 1
          /\ map[k2].used = 1
          /\ First(lru)[2] = k1
          /\ IsSome(get(Cache, k1, MaxTime).ret)
          /\ First(get(Cache, k1, MaxTime).c.lru)[2] = k2

\* C36: reads that miss do not reclaim.  A get on an absent or expired key
\* leaves the whole cache as it was; fast_get and contains only read it, on
\* any key; and an entry expired at now is still held after the miss and still
\* counts toward the weight.
C36_MissKeepsState ==
    \A key \in Keys, now \in Times :
        LET r == get(Cache, key, now)
        IN /\ ~IsSome(r.ret) => r.c = Cache
           /\ (key \in DOMAIN map /\ expired(map[key].expires, now))
              => /\ ~IsSome(r.ret)
                 /\ fast_get(Cache, key, now) = None
                 /\ ~contains(Cache, key, now)
                 /\ key \in DOMAIN r.c.map
                 /\ r.c.map[key] = map[key]
                 /\ r.c.weight = weight
                 /\ weight >= map[key].weight
           /\ key \notin DOMAIN map
              => /\ fast_get(Cache, key, now) = None
                 /\ ~contains(Cache, key, now)

\* C36 witness: the cache holds an expired entry and nothing else, so that the
\* whole weight is the weight of an entry no read finds, and a key is absent.
C36_Witness ==
    /\ pc = "ready"
    /\ \E key \in DOMAIN map :
          /\ DOMAIN map = {key}
          /\ expired(map[key].expires, MaxTime)
          /\ ~IsSome(get(Cache, key, MaxTime).ret)
          /\ get(Cache, key, MaxTime).c.weight = compute_weight(key, map[key].data)
          /\ weight > 0

\* C37: in every state reached through Store::apply every stored entry has a
\* key of at most 255 bytes and data of at most 1,048,576 bytes, the entries
\* made by append and prepend included.
C37_StoredSizes ==
    \A key \in DOMAIN map :
        /\ BLen(key) <= MAX_KEY
        /\ BLen(map[key].data.data) <= MAX_DATA

\* C38: every complete command a client has sent is eventually parsed, applied
\* and (unless noreply) answered without the client sending anything more,
\* several commands arriving in one socket read included: once a client has
\* sent n commands the server eventually has finished n of them.
C38_EveryCommandServed ==
    \A c \in Clients : \A n \in 1..MaxLog :
        (sock[c].sent >= n) ~> (sock[c].done >= n)

\* the sum of the weights stored with the entries of m
RECURSIVE MapWeight(_)
MapWeight(m) ==
    IF DOMAIN m = {} THEN 0
    ELSE LET k == CHOOSE x \in DOMAIN m : TRUE
         IN m[k].weight + MapWeight([j \in DOMAIN m \ {k} |-> m[j]])

\* C39: in every reachable cache state the weight field is the sum of the
\* stored weights of the entries of the primary mapping: 0 for an empty
\* mapping, and never below 0, which is where a delete would underflow.
C39_WeightIsSum ==
    /\ weight = MapWeight(map)
    /\ weight >= 0
    /\ \A key \in DOMAIN map :
          /\ map[key].weight = compute_weight(key, map[key].data)
          /\ delete(Cache, key).c.weight = MapWeight(delete(Cache, key).c.map)

\* C39 witness: two entries are held, one of them expired, and one is deleted.
C39_Witness ==
    /\ pc = "ready"
    /\ \E k1 \in DOMAIN map, k2 \in DOMAIN map :
          /\ k1 # k2
          /\ DOMAIN map = {k1, k2}
          /\ expired(map[k1].expires, MaxTime)
          /\ weight = map[k1].weight + map[k2].weight
          /\ delete(Cache, k1).c.weight = map[k2].weight

\* the client sent quit last
Quitted(c) ==
    /\ IsSome(conn[c].request)
    /\ Unwrap(conn[c].request).command.type = "Quit"

\* C40: the two unreachable! sites are never reached.  A quit closes the
\* connection with no response and is never passed to Store::apply: no call
\* has panicked, no command in the order of the lock is a quit, and a client
\* that sent quit is closed with nothing computed or written for it.  And
\* deweight_once never finds the recency index empty while the primary
\* mapping is not: every stored key has its pair there, and a call at any
\* clock value returns.
C40_UnreachableSites ==
    /\ pc # "panicked"
    /\ \A i \in 1..Len(log) : log[i].command.type # "Quit"
    /\ \A c \in Clients :
          /\ conn[c].pc # "panicked"
          /\ Quitted(c) => /\ conn[c].pc = "closed"
                           /\ conn[c].ticket = 0
                           /\ conn[c].response = None
                           /\ conn[c].written = <<>>
    /\ DOMAIN map # {} => lru # {}
    /\ \A key \in DOMAIN map : <<map[key].used, key>> \in lru
    /\ \A now \in ServerClocks \cup {Epoch0 + 2} :
          deweight_once(Cache, now).st = "ok"

\* C40 witness: one client has quit; the other's set has evicted the entry
\* that did not fit next to it, by way of the recency index.
C40_Witness ==
    /\ pc = "ready"
    /\ \E c \in Clients : Quitted(c) /\ conn[c].pc = "closed"
    /\ Len(log) = 2
    /\ log[1].command.type = "Setter" /\ log[1].command.key = KeyB
    /\ log[2].command.type = "Setter" /\ log[2].command.key = KeyA
    /\ log[2].command.setter = "Set"
    /\ mutex = None
    /\ DOMAIN map = {KeyA}

====
